---- MODULE Spec2Model ----
(***************************************************************************)
(* The pet registration application of src/app.py: the index() view with   *)
(* its cookie session and its two tables, the reset() and view_data()      *)
(* views.  One action per request; a request is handled to completion      *)
(* before the next one starts, except in the specification of interleaved  *)
(* requests, where pending holds the requests in flight.  checked holds    *)
(* the form object that a helper of src/forms/pet_owner_form.py was last   *)
(* called on, with what the helper returned, or the Pet object of          *)
(* src/models/pet_model.py whose properties are read, with what they gave. *)
(*                                                                         *)
(* Text that the code converts to a number (num_pets, age,                 *)
(* current_pet_number) is a sequence of one-character strings, so that     *)
(* int() is computed and not assumed.  Other text is a TLA+ string.        *)
(* The CSRF token of FlaskForm is taken to be valid and created_at is      *)
(* left out of the rows.                                                   *)
(***************************************************************************)
EXTENDS Integers, Sequences, FiniteSets, TLC

VARIABLES session, db, flashed, pending, checked

vars == <<session, db, flashed, pending, checked>>

(***************************************************************************)
(* Bounds of the model.                                                    *)
(***************************************************************************)
\* requests are served while the pet table holds at most this many rows
MaxPets == 2

\* the same, where requests are interleaved
MaxInterleavedPets == 3

(***************************************************************************)
(* Python's int() on text.                                                 *)
(***************************************************************************)
DigitVal ==
    [c \in {"0", "1", "2", "3", "4", "5", "6", "7", "8", "9"} |->
        CASE c = "0" -> 0 [] c = "1" -> 1 [] c = "2" -> 2 [] c = "3" -> 3
          [] c = "4" -> 4 [] c = "5" -> 5 [] c = "6" -> 6 [] c = "7" -> 7
          [] c = "8" -> 8 [] c = "9" -> 9]

IsDigit(c) == c \in DOMAIN DigitVal

RECURSIVE LStrip(_)
LStrip(s) == IF Len(s) > 0 /\ s[1] = " " THEN LStrip(Tail(s)) ELSE s

RECURSIVE RStrip(_)
RStrip(s) ==
    IF Len(s) > 0 /\ s[Len(s)] = " " THEN RStrip(SubSeq(s, 1, Len(s) - 1)) ELSE s

Strip(s) == RStrip(LStrip(s))

RECURSIVE DigitsValue(_)
DigitsValue(s) ==
    IF Len(s) = 0 THEN 0
    ELSE 10 * DigitsValue(SubSeq(s, 1, Len(s) - 1)) + DigitVal[s[Len(s)]]

\* int(text): [ok |-> TRUE, val |-> n], or ok = FALSE where int() raises ValueError
PyInt(text) ==
    LET t == Strip(text)
        signed == Len(t) > 0 /\ t[1] \in {"+", "-"}
        body == IF signed THEN Tail(t) ELSE t
    IN  IF Len(body) = 0 \/ \E i \in 1..Len(body) : ~IsDigit(body[i])
        THEN [ok |-> FALSE, val |-> 0]
        ELSE [ok |-> TRUE,
              val |-> IF signed /\ t[1] = "-" THEN 0 - DigitsValue(body)
                      ELSE DigitsValue(body)]

(***************************************************************************)
(* The rows of the two tables.  An id is the next free integer of its      *)
(* table (SQLite's INTEGER PRIMARY KEY).                                   *)
(***************************************************************************)
\* PetOwner(name, email, phone, postal_code), with the id the flush gives it
PetOwner(id, data) ==
    [id |-> id, name |-> data.name, email |-> data.email,
     phone |-> data.phone, postal_code |-> data.postal_code]

\* Pet(pet_type, sex, age, location_type, microchipped, pet_number, owner_id)
Pet(id, pet_type, sex, age, location_type, microchipped, pet_number, owner_id) ==
    [id |-> id, pet_type |-> pet_type, sex |-> sex, age |-> age,
     location_type |-> location_type, microchipped |-> microchipped,
     pet_number |-> pet_number, owner_id |-> owner_id]

NextId(rows) ==
    IF rows = {} THEN 1
    ELSE 1 + (CHOOSE m \in {r.id : r \in rows} : \A r \in rows : r.id <= m)

\* the unit of work of db.session: rows added and not yet committed
NoTx == [owners |-> {}, pets |-> {}]

\* db.session.add(owner); db.session.flush(): the owner gets its id
AddOwner(d, tx, data) ==
    [tx EXCEPT !.owners = @ \cup {PetOwner(NextId(d.owners \cup tx.owners), data)}]

\* a pet linked to the owner with id 1, whoever its owner is
AddPetToFirstOwner(d, tx, pet_type, sex, age, location_type, microchipped, pet_number, owner_id) ==
    [tx EXCEPT !.pets = @ \cup {Pet(NextId(d.pets \cup tx.pets), pet_type, sex, age,
                                    location_type, microchipped, pet_number, 1)}]

\* db.session.add(pet)
AddPet(d, tx, pet_type, sex, age, location_type, microchipped, pet_number, owner_id) ==
    [tx EXCEPT !.pets = @ \cup {Pet(NextId(d.pets \cup tx.pets), pet_type, sex, age,
                                    location_type, microchipped, pet_number, owner_id)}]

\* a commit that stores the owner rows only
CommitOwnersOnly(d, tx) == [owners |-> d.owners \cup tx.owners, pets |-> d.pets]

\* db.session.commit()
Commit(d, tx) == [owners |-> d.owners \cup tx.owners, pets |-> d.pets \cup tx.pets]

\* a rollback after which the flushed owner is in the table
RollbackKeepsFlushed(d, tx) == [d EXCEPT !.owners = @ \cup tx.owners]

\* db.session.rollback(): a flushed owner was never committed
Rollback(d, tx) == d

\* PetOwner.query.get(id): the set holding the row, empty for None
QueryGet(d, tx, id) == {o \in d.owners \cup tx.owners : o.id = id}

(***************************************************************************)
(* The session: a dictionary, here a function on the keys it holds.        *)
(***************************************************************************)
EmptyDict == [k \in {} |-> ""]

Has(s, k) == k \in DOMAIN s

Set(s, k, v) == [x \in DOMAIN s \cup {k} |-> IF x = k THEN v ELSE s[x]]

Pop(s, k) == [x \in DOMAIN s \ {k} |-> s[x]]

\* an initialisation that sets added_pets whether or not the session has it
InitSessionResets(s) ==
    LET s1 == IF Has(s, "owner_data") THEN s ELSE Set(s, "owner_data", EmptyDict)
        s2 == Set(s1, "added_pets", <<>>)
    IN  IF Has(s2, "total_pets") THEN s2 ELSE Set(s2, "total_pets", 0)

\* an initialisation that sets total_pets to 0 whether or not the session has it
InitSessionZeroTotal(s) ==
    LET s1 == IF Has(s, "owner_data") THEN s ELSE Set(s, "owner_data", EmptyDict)
        s2 == IF Has(s1, "added_pets") THEN s1 ELSE Set(s1, "added_pets", <<>>)
    IN  Set(s2, "total_pets", 0)

\* "Initialize session data if not exists"
InitSession(s) ==
    LET s1 == IF Has(s, "owner_data") THEN s ELSE Set(s, "owner_data", EmptyDict)
        s2 == IF Has(s1, "added_pets") THEN s1 ELSE Set(s1, "added_pets", <<>>)
    IN  IF Has(s2, "total_pets") THEN s2 ELSE Set(s2, "total_pets", 0)

\* a clearing that keeps the declared total
SessionClearKeepsTotal(s) == [k \in DOMAIN s \cap {"total_pets"} |-> s[k]]

\* session.clear()
SessionClear(s) == EmptyDict

\* a clearing that forgets to pop owner_id
ClearSessionKeepsOwnerId(s) ==
    Pop(Pop(Pop(s, "owner_data"), "added_pets"), "total_pets")

\* "Clear session data"
ClearSession(s) ==
    Pop(Pop(Pop(Pop(s, "owner_data"), "added_pets"), "total_pets"), "owner_id")

\* x in list
InList(x, list) == \E i \in 1..Len(list) : list[i] = x

(***************************************************************************)
(* PetOwnerForm of src/app.py.  The posted data (request.form) is a        *)
(* function from the keys it carries to their text; PetOwnerForm(post) is  *)
(* the form object built from it: the data of each field and the fields    *)
(* that fail validation.                                                   *)
(***************************************************************************)
NumPetsChoices == 0..5

PetTypeChoices == {"", "cat", "dog"}

SexChoices == {"", "male", "female"}

LocationChoices == {"", "city", "rural"}

AgeMin == 0

AgeMax == 30

\* Python's None where a number, a text or posted text is expected
None == [is_none |-> TRUE, val |-> 0]

NoneText == [is_none |-> TRUE, val |-> ""]

NonePosted == [is_none |-> TRUE, val |-> <<>>]

Some(v) == [is_none |-> FALSE, val |-> v]

\* SelectField (text): the posted text, None when the key is not posted
SelectData(post, key) == IF key \in DOMAIN post THEN Some(post[key]) ELSE NoneText

\* bool(data) of a text field
Truthy(data) == ~data.is_none /\ data.val # ""

\* SelectField.pre_validate: the data is one of the choices
ChoiceOk(data, choices) == ~data.is_none /\ data.val \in choices

\* DataRequired(), Length(min, max)
LengthOk(data, min, max) == data # "" /\ Len(data) >= min /\ Len(data) <= max

\* DataRequired(), Email(): the addresses the validator accepts among those
\* the model posts
EmailOk(data) == data # "" /\ data \in {"al@x.io"}

\* SelectField(coerce=int, default=0): the default stays when int() raises
NumPetsData(post) ==
    LET n == PyInt(post["num_pets"]) IN IF n.ok THEN n.val ELSE 0

\* IntegerField: None when the text is no integer
AgeData(post) ==
    LET n == PyInt(post["age"]) IN IF n.ok THEN Some(n.val) ELSE None

\* a range check without the lower end
AgeErrorsAboveOnly(post) ==
    LET data == AgeData(post)
    IN  /\ Strip(post["age"]) # <<>>
        /\ \/ data.is_none
           \/ data.val > AgeMax

\* Optional() stops the validation of empty or blank text;
\* NumberRange(min=0, max=30) otherwise
AgeErrors(post) ==
    LET data == AgeData(post)
    IN  /\ Strip(post["age"]) # <<>>
        /\ \/ data.is_none
           \/ data.val < AgeMin
           \/ data.val > AgeMax

\* the fields of form.errors
FormErrors(post) ==
    {f \in {"name"} : ~LengthOk(post["name"], 2, 100)}
    \cup {f \in {"email"} : ~EmailOk(post["email"])}
    \cup {f \in {"phone"} : ~LengthOk(post["phone"], 10, 20)}
    \cup {f \in {"postal_code"} : ~LengthOk(post["postal_code"], 3, 10)}
    \cup {f \in {"num_pets"} :
            ~PyInt(post["num_pets"]).ok \/ NumPetsData(post) \notin NumPetsChoices}
    \cup {f \in {"pet_type"} : ~ChoiceOk(SelectData(post, "pet_type"), PetTypeChoices)}
    \cup {f \in {"sex"} : ~ChoiceOk(SelectData(post, "sex"), SexChoices)}
    \cup {f \in {"age"} : AgeErrors(post)}
    \cup {f \in {"location_type"} :
            ~ChoiceOk(SelectData(post, "location_type"), LocationChoices)}

\* form = PetOwnerForm(), after form.validate_on_submit()
PetOwnerForm(post) ==
    [name |-> post["name"], email |-> post["email"], phone |-> post["phone"],
     postal_code |-> post["postal_code"], num_pets |-> NumPetsData(post),
     pet_type |-> SelectData(post, "pet_type"), sex |-> SelectData(post, "sex"),
     age |-> AgeData(post), location_type |-> SelectData(post, "location_type"),
     microchipped |-> "microchipped" \in DOMAIN post,
     errors |-> FormErrors(post)]

\* a POST request: the form object and request.form.get("current_pet_number")
Request(post) ==
    [form |-> PetOwnerForm(post),
     current_pet_number |->
        IF "current_pet_number" \in DOMAIN post
        THEN Some(post["current_pet_number"]) ELSE NonePosted]

\* form.validate_on_submit() of a POST
ValidateOnSubmit(form) == form.errors = {}

\* int(request.form.get("current_pet_number", 1))
CurrentPetNumber(req) ==
    IF req.current_pet_number.is_none THEN [ok |-> TRUE, val |-> 1]
    ELSE PyInt(req.current_pet_number.val)

\* "Validate that pet information is provided": pet_type and sex are tested
\* for truth, age and location_type for not being None
PetInformationProvided(form) ==
    /\ Truthy(form.pet_type)
    /\ Truthy(form.sex)
    /\ ~form.age.is_none
    /\ ~form.location_type.is_none

\* owner data saved on every submission
SaveOwnerDataAlways(s, form) ==
    Set(Set(s, "owner_data",
            [name |-> form.name, email |-> form.email,
             phone |-> form.phone, postal_code |-> form.postal_code]),
        "total_pets", form.num_pets)

\* "If this is the first submission, save owner data to session"
SaveOwnerData(s, form) ==
    IF DOMAIN s["owner_data"] = {}
    THEN Set(Set(s, "owner_data",
                 [name |-> form.name, email |-> form.email,
                  phone |-> form.phone, postal_code |-> form.postal_code]),
             "total_pets", form.num_pets)
    ELSE s

(***************************************************************************)
(* index(), POST: the session, the committed tables and the flashed        *)
(* messages it leaves.  fail names the database call that raises, if any.  *)
(***************************************************************************)
\* flash(message, category): the message by its kind, with the counts it shows
Flash(category, kind, k, n) == [category |-> category, kind |-> kind, k |-> k, n |-> n]

Result(s, d, messages) == [session |-> s, db |-> d, flashed |-> messages]

\* except Exception as e: rollback, flash the error, render the page
OnException(s, d, tx) ==
    Result(s, Rollback(d, tx), <<Flash("error", "exception", 0, 0)>>)

\* no check of the numbers already added
AlreadyAddedUnchecked(s, number) == FALSE

\* a check that skips the first number added
AlreadyAddedSkipsFirst(s, number) ==
    \E i \in 2..Len(s["added_pets"]) : s["added_pets"][i] = number

\* "Check if this pet has already been added"
AlreadyAdded(s, number) == InList(number, s["added_pets"])

\* an owner created for every pet
FirstPetAlways(s) == TRUE

\* "Create owner (only on first pet)"
FirstPet(s) == s["added_pets"] = <<>>

\* a check that never finds the registration complete
AllAddedNever(s) == FALSE

\* "Check if all pets have been added"
AllAdded(s) == Len(s["added_pets"]) = s["total_pets"]

\* from "Create pet" to the end of the try block, owner being a row
AddPetAndFinish(s, d, tx, form, number, owner, fail) ==
    LET tx1 == AddPet(d, tx, form.pet_type.val, form.sex.val, form.age.val,
                      form.location_type.val, form.microchipped, number, owner.id)
        s1 == Set(s, "added_pets", Append(s["added_pets"], number))
        added == Flash("success", "added", Len(s1["added_pets"]), s1["total_pets"])
    IN  IF fail = "commit" THEN OnException(s, d, tx1)
        ELSE IF AllAdded(s1)
        THEN Result(ClearSession(s1), Commit(d, tx1),
                    <<added, Flash("success", "complete", 0, 0)>>)
        ELSE Result(s1, Commit(d, tx1), <<added>>)

\* the branch taken when the pet information is provided
AddPetBranch(s, d, req, fail) ==
    LET number == CurrentPetNumber(req)
    IN  IF ~number.ok THEN OnException(s, d, NoTx)
        ELSE IF AlreadyAdded(s, number.val)
        THEN Result(s, d, <<Flash("error", "duplicate", 0, 0)>>)
        ELSE IF FirstPet(s)
        THEN IF fail = "flush" THEN OnException(s, d, NoTx)
             ELSE LET tx == AddOwner(d, NoTx, s["owner_data"])
                      owner == CHOOSE o \in tx.owners : TRUE
                  IN  AddPetAndFinish(Set(s, "owner_id", owner.id), d, tx, req.form,
                                      number.val, owner, fail)
        ELSE IF ~Has(s, "owner_id") THEN OnException(s, d, NoTx)
        ELSE LET found == QueryGet(d, NoTx, s["owner_id"])
             IN  IF found = {} THEN OnException(s, d, NoTx)
                 ELSE AddPetAndFinish(s, d, NoTx, req.form, number.val,
                                      CHOOSE o \in found : TRUE, fail)

\* the try block of a validated form
Validated(s, d, req, fail) ==
    LET s1 == SaveOwnerData(s, req.form)
    IN  IF PetInformationProvided(req.form)
        THEN AddPetBranch(s1, d, req, fail)
        ELSE Result(s1, d, <<Flash("error", "incomplete", 0, 0)>>)

\* index() on a POST
Index(s, d, req, fail) ==
    LET s0 == InitSession(s)
    IN  IF ValidateOnSubmit(req.form) THEN Validated(s0, d, req, fail)
        ELSE Result(s0, d, <<Flash("error", "invalid", 0, 0)>>)

(***************************************************************************)
(* The requests of the model.                                              *)
(***************************************************************************)
NumPetsInputs == {<<"0">>, <<"1">>, <<"2">>}

OwnerPosts ==
    {[name |-> "Al", email |-> "al@x.io", phone |-> "0123456789",
      postal_code |-> "1000", num_pets |-> n] : n \in NumPetsInputs}
    \cup {[name |-> "Bo", email |-> "al@x.io", phone |-> "9876543210",
           postal_code |-> "2000", num_pets |-> <<"1">>]}

\* an address that Email() refuses
BadOwnerPosts ==
    {[name |-> "Bo", email |-> "bo.x.io", phone |-> "0123456789",
      postal_code |-> "1000", num_pets |-> <<"1">>]}

\* every field given, the second with the location left unselected
GivenPetPosts ==
    {[pet_type |-> "cat", sex |-> "male", age |-> <<"0">>, location_type |-> "city"],
     [pet_type |-> "dog", sex |-> "female", age |-> <<"3", "0">>, location_type |-> ""]}

\* one field or all fields left empty, and an age above the range
OtherPetPosts ==
    {[pet_type |-> "", sex |-> "male", age |-> <<"0">>, location_type |-> "city"],
     [pet_type |-> "cat", sex |-> "", age |-> <<"0">>, location_type |-> "city"],
     [pet_type |-> "cat", sex |-> "male", age |-> <<>>, location_type |-> "city"],
     [pet_type |-> "", sex |-> "", age |-> <<>>, location_type |-> ""],
     [pet_type |-> "cat", sex |-> "male", age |-> <<"3", "1">>, location_type |-> "city"]}

PetNumberInputs == {<<"2">>, <<" ", "2">>, <<"x">>}

\* posted data with each current_pet_number, and without one
WithPetNumbers(posts) ==
    posts \cup {p @@ [current_pet_number |-> pn] : p \in posts, pn \in PetNumberInputs}

\* the requests that reach the database calls
Requests ==
    {Request(p) : p \in WithPetNumbers({o @@ p : o \in OwnerPosts, p \in GivenPetPosts})}

\* the requests that are turned down before them
RejectedRequests ==
    {Request(p) :
        p \in WithPetNumbers({o @@ p : o \in OwnerPosts, p \in OtherPetPosts}
                             \cup {o @@ p : o \in BadOwnerPosts, p \in GivenPetPosts})}

Failures == {"none", "flush", "commit"}

(***************************************************************************)
(* The state machine.                                                      *)
(***************************************************************************)
\* no request is in flight
Idle == [h \in {1, 2} |-> [pc |-> "idle"]]

\* no helper of the form was called
Uncalled == [called |-> "", returned |-> ""]

Init ==
    /\ session = EmptyDict
    /\ db = [owners |-> {}, pets |-> {}]
    /\ flashed = <<>>
    /\ pending = Idle
    /\ checked = Uncalled

\* the pet table stays within the bound of the model
Within(r) == Cardinality(r.db.pets) <= MaxPets

Respond(r) ==
    /\ Within(r)
    /\ session' = r.session
    /\ db' = r.db
    /\ flashed' = r.flashed
    /\ UNCHANGED <<pending, checked>>

\* POST /, with a request that reaches the database calls
Submit ==
    \E req \in Requests, fail \in Failures :
        \E r \in {Index(session, db, req, fail)} : Respond(r)

\* POST /, with a request that is turned down before them
SubmitRejected ==
    \E req \in RejectedRequests :
        \E r \in {Index(session, db, req, "none")} : Respond(r)

\* GET /
View ==
    /\ session' = InitSession(session)
    /\ flashed' = <<>>
    /\ UNCHANGED <<db, pending, checked>>

\* GET /view_data
ViewData ==
    /\ flashed' = <<>>
    /\ UNCHANGED <<session, db, pending, checked>>

\* a reset that deletes the rows of the registration in progress
ResetDropsRows ==
    /\ session' = SessionClear(session)
    /\ flashed' = <<Flash("success", "reset", 0, 0)>>
    /\ db' = [owners |-> {o \in db.owners : ~Has(session, "owner_id")
                                               \/ o.id # session["owner_id"]},
              pets |-> {p \in db.pets : ~Has(session, "owner_id")
                                           \/ p.owner_id # session["owner_id"]}]
    /\ UNCHANGED <<pending, checked>>

\* GET /reset
Reset ==
    /\ session' = SessionClear(session)
    /\ flashed' = <<Flash("success", "reset", 0, 0)>>
    /\ UNCHANGED <<db, pending, checked>>

Next == Submit \/ SubmitRejected \/ View \/ ViewData \/ Reset

Spec == Init /\ [][Next]_vars

(***************************************************************************)
(* What the page shows of the session (session.get with its defaults): the *)
(* owner snapshot, the committed numbers, the declared total and the owner *)
(* id, a key that is not set reading as its default.                       *)
(***************************************************************************)
Status(s) ==
    [owner_data |-> IF Has(s, "owner_data") THEN s["owner_data"] ELSE EmptyDict,
     added_pets |-> IF Has(s, "added_pets") THEN s["added_pets"] ELSE <<>>,
     total_pets |-> IF Has(s, "total_pets") THEN s["total_pets"] ELSE 0,
     owner_id |-> IF Has(s, "owner_id") THEN Some(s["owner_id"]) ELSE None]

\* the kind of the first message the last request flashed, "" when none
Flashed == IF flashed = <<>> THEN "" ELSE flashed[1].kind

\* the last request flashed "All pets have been added!"
Completed == Len(flashed) = 2 /\ flashed[2].kind = "complete"

\* the n rows the pet table received last
LastPets(n) == {p \in db.pets : p.id > Cardinality(db.pets) - n}

PetsOf(owner_id) == {p \in db.pets : p.owner_id = owner_id}

(***************************************************************************)
(* C1.  When a submit completes a registration with declared total n (the  *)
(* n-th accepted submit of the session, no database call of which          *)
(* failed), the session is empty: no owner snapshot, no declared total, no *)
(* committed numbers, no owner id; and the n rows the pet table received   *)
(* during the session carry n distinct numbers and are the pets of one     *)
(* owner row, the newest one, which has no other pet.                      *)
(***************************************************************************)
C1_CompleteRegistration ==
    Completed =>
        LET n == flashed[1].n
        IN  /\ Status(session) = Status(EmptyDict)
            /\ DOMAIN session = {}
            /\ Cardinality(LastPets(n)) = n
            /\ Cardinality({p.pet_number : p \in LastPets(n)}) = n
            /\ \E o \in db.owners :
                  /\ o.id = Cardinality(db.owners)
                  /\ PetsOf(o.id) = LastPets(n)

\* a registration of two pets, numbered 1 and 2, has just completed
C1_Witness ==
    /\ Completed
    /\ flashed[1].n = 2
    /\ {p.pet_number : p \in LastPets(2)} = {1, 2}

\* the declared total in force while the request is handled is one of 1..5
ProperTotal(req) ==
    Status(SaveOwnerData(InitSession(session), req.form)).total_pets
        \in NumPetsChoices \ {0}

\* the request carries a number that the session has committed
Resubmits(req) ==
    /\ CurrentPetNumber(req).ok
    /\ InList(CurrentPetNumber(req).val, Status(session).added_pets)

Duplicate == <<Flash("error", "duplicate", 0, 0)>>

(***************************************************************************)
(* C2, as claimed.  In any session state, a submit whose number is in the  *)
(* committed set never increases the number of pet rows and always yields  *)
(* the duplicate error, whatever its other fields.  Stated for the         *)
(* sessions whose declared total is one of 1..5.                           *)
(***************************************************************************)
C2_AlwaysDuplicateError ==
    [][\A req \in Requests \cup RejectedRequests, fail \in Failures :
          /\ ProperTotal(req)
          /\ Resubmits(req)
          /\ Respond(Index(session, db, req, fail))
          => /\ Cardinality(db'.pets) <= Cardinality(db.pets)
             /\ flashed' = Duplicate]_vars

(***************************************************************************)
(* C2, amended.  A submit whose number is in the committed set never adds  *)
(* a row to either table, whatever its other fields; it yields the         *)
(* duplicate error, and leaves the session as it was, when the form        *)
(* validates and its pet information is provided.                          *)
(***************************************************************************)
C2_Duplicate ==
    \A req \in Requests \cup RejectedRequests, fail \in Failures :
        Resubmits(req) =>
            LET r == Index(session, db, req, fail)
            IN  /\ r.db = db
                /\ ValidateOnSubmit(req.form) /\ PetInformationProvided(req.form)
                      => r.flashed = Duplicate /\ r.session = session

\* a duplicate was turned down while the session holds a committed number
C2_Witness ==
    /\ flashed = Duplicate
    /\ Status(session).added_pets # <<>>
    /\ \E p \in db.pets :
          /\ p.owner_id = session["owner_id"]
          /\ InList(p.pet_number, session["added_pets"])

\* one of the four pet fields of the form is empty or missing
PetFieldMissing(form) ==
    \/ ~Truthy(form.pet_type)
    \/ ~Truthy(form.sex)
    \/ form.age.is_none
    \/ ~Truthy(form.location_type)

(***************************************************************************)
(* C3.  A submit in which one of the four pet fields (type, sex, age,      *)
(* location) is empty or missing creates no pet row and no owner row and   *)
(* leaves the committed numbers of the session unchanged; so does a submit *)
(* whose location is the empty text while type, sex and age are filled.    *)
(* Stated for the sessions whose declared total is one of 1..5.            *)
(***************************************************************************)
C3_IncompleteCreatesNothing ==
    [][\A req \in Requests \cup RejectedRequests, fail \in Failures :
          /\ ProperTotal(req)
          /\ PetFieldMissing(req.form)
          /\ Respond(Index(session, db, req, fail))
          => /\ db' = db
             /\ Status(session').added_pets = Status(session).added_pets]_vars


\* the session holds no snapshot, or a declared total that is one of 1..5
ProperSession(s) ==
    \/ Status(s).owner_data = EmptyDict
    \/ Status(s).total_pets \in NumPetsChoices \ {0}

Rejections == {"invalid", "incomplete", "duplicate"}

(***************************************************************************)
(* C4, as claimed.  A submit rejected with a validation error, an          *)
(* incomplete-pet error or a duplicate error leaves the owner snapshot,    *)
(* the declared total, the committed numbers, the owner id and the tables  *)
(* as they were, also when it is the first submit of an empty session.     *)
(* Stated for the sessions whose declared total is one of 1..5.            *)
(***************************************************************************)
C4_RejectionChangesNothing ==
    [][Flashed' \in Rejections /\ ProperSession(session') =>
          /\ Status(session') = Status(session)
          /\ db' = db]_vars

(***************************************************************************)
(* C4, amended.  A submit rejected with a validation error or a duplicate  *)
(* error leaves the owner snapshot, the declared total, the committed      *)
(* numbers, the owner id and the tables as they were.  A submit rejected   *)
(* with the incomplete-pet error leaves the tables, the committed numbers  *)
(* and the owner id as they were; it leaves the owner snapshot and the     *)
(* declared total as they were when the session holds a snapshot, and      *)
(* captures them from the request when it holds none.                      *)
(***************************************************************************)
C4_Rejected ==
    [][Flashed' \in Rejections =>
          /\ db' = db
          /\ Status(session').added_pets = Status(session).added_pets
          /\ Status(session').owner_id = Status(session).owner_id
          /\ IF Flashed' = "incomplete" /\ Status(session).owner_data = EmptyDict
             THEN Status(session').owner_data # EmptyDict
             ELSE Status(session') = Status(session)]_vars

\* the first submit of an empty session was rejected as incomplete
C4_Witness ==
    /\ Flashed = "incomplete"
    /\ Status(session).owner_data # EmptyDict
    /\ Status(session).total_pets = 2
    /\ Status(session).added_pets = <<>>
    /\ ~Has(session, "owner_id")
    /\ db.pets = {}

(***************************************************************************)
(* C5.  When a database call of a submit raises (the flush of the owner,   *)
(* or the commit after the owner was flushed), the tables after the        *)
(* request are the tables before it: neither the owner row nor the pet row *)
(* of that submit is stored.                                               *)
(***************************************************************************)
C5_FailureLeavesTables == [][Flashed' = "exception" => db' = db]_vars

\* the commit failed after the owner was flushed: the id it was given is in
\* the session and no row has it
C5_Witness ==
    /\ Flashed = "exception"
    /\ Status(session).total_pets = 2
    /\ Has(session, "owner_id")
    /\ QueryGet(db, NoTx, session["owner_id"]) = {}

(***************************************************************************)
(* C6.  When a database call of a submit raises, the owner snapshot, the   *)
(* declared total, the committed numbers and the owner id of the session   *)
(* are after the request what they were before it: no id of an owner that  *)
(* was rolled back is left in the session.  Stated for the sessions that   *)
(* hold an owner snapshot before the request, with a declared total that   *)
(* is one of 1..5.                                                         *)
(***************************************************************************)
C6_FailureLeavesSession ==
    [][\A req \in Requests, fail \in {"flush", "commit"} :
          /\ Status(session).owner_data # EmptyDict
          /\ ProperTotal(req)
          /\ CurrentPetNumber(req).ok
          /\ Respond(Index(session, db, req, fail))
          /\ Flashed' = "exception"
          => Status(session') = Status(session)]_vars

(***************************************************************************)
(* C7.  Every pet row carries, when it is committed, a number in 1..T, T   *)
(* being the declared total of the session that commits it.  Stated for    *)
(* the sessions whose declared total is one of 1..5.                       *)
(***************************************************************************)
C7_NumberWithinTotal ==
    Flashed = "added" /\ flashed[1].n \in NumPetsChoices \ {0} =>
        \A p \in LastPets(1) : p.pet_number \in 1..flashed[1].n

(***************************************************************************)
(* C8.  No two pet rows of the same owner carry the same number.           *)
(***************************************************************************)
C8_UniqueNumbers ==
    \A p, q \in db.pets :
        p.owner_id = q.owner_id /\ p.pet_number = q.pet_number => p = q

\* a registration of two pets has completed and its owner has two pet rows
C8_Witness ==
    /\ Completed
    /\ \E p, q \in db.pets : p # q /\ p.owner_id = q.owner_id

(***************************************************************************)
(* C9.  A submit that declares 0 pets is rejected: it records no declared  *)
(* total, captures no owner snapshot and stores no row.                    *)
(***************************************************************************)
C9_ZeroPetsRejected ==
    [][\A req \in Requests \cup RejectedRequests :
          req.form.num_pets = 0 /\ Respond(Index(session, db, req, "none")) =>
              /\ db' = db
              /\ Status(session').owner_data = Status(session).owner_data
              /\ Status(session').total_pets = Status(session).total_pets]_vars

\* the fields of an owner row that come from the snapshot
OwnerFields(o) ==
    [name |-> o.name, email |-> o.email, phone |-> o.phone,
     postal_code |-> o.postal_code]

(***************************************************************************)
(* C10.  While a session holds an owner snapshot, a request either clears  *)
(* the session or leaves the snapshot and the declared total as they are,  *)
(* whatever owner fields and number of pets it carries; and an owner row   *)
(* stored by it carries the fields of the snapshot.                        *)
(***************************************************************************)
C10_CapturedOnce ==
    [][Status(session).owner_data # EmptyDict =>
          /\ \/ Status(session') = Status(EmptyDict)
             \/ /\ Status(session').owner_data = Status(session).owner_data
                /\ Status(session').total_pets = Status(session).total_pets
          /\ \A o \in db'.owners \ db.owners :
                OwnerFields(o) = Status(session).owner_data]_vars

\* the session holds a snapshot and no pet yet, and a request with another
\* name and another number of pets stores the owner row under the name of
\* the snapshot
C10_Witness ==
    /\ Flashed = "incomplete"
    /\ Status(session).owner_data # EmptyDict
    /\ Status(session).total_pets = 2
    /\ Status(session).added_pets = <<>>
    /\ \E req \in Requests :
          /\ req.form.name # Status(session).owner_data.name
          /\ req.form.num_pets # Status(session).total_pets
          /\ \E o \in Index(session, db, req, "none").db.owners \ db.owners :
                o.name = Status(session).owner_data.name

\* the rows a step adds to a table
NewOwners == db'.owners \ db.owners

NewPets == db'.pets \ db.pets

(***************************************************************************)
(* C11.  A step commits at most one owner row.  It commits one only while  *)
(* the session has no committed number, together with exactly one pet row  *)
(* that is linked to it, and it leaves the session either cleared or with  *)
(* one committed number and the id of that owner.  While the session has a *)
(* committed number, a step commits no owner row, links every pet row it   *)
(* commits to the owner whose id the session holds, and leaves the session *)
(* either cleared or with that owner id and a committed number; so between *)
(* two clearings one owner row is committed and every pet row is linked to *)
(* it.                                                                     *)
(***************************************************************************)
C11_OneOwnerPerSession ==
    [][/\ Cardinality(NewOwners) <= 1
       /\ \A o \in NewOwners :
             /\ Status(session).added_pets = <<>>
             /\ Cardinality(NewPets) = 1
             /\ \A p \in NewPets : p.owner_id = o.id
             /\ \/ Status(session') = Status(EmptyDict)
                \/ /\ Len(Status(session').added_pets) = 1
                   /\ Status(session').owner_id = Some(o.id)
       /\ Status(session).added_pets # <<>> =>
             /\ NewOwners = {}
             /\ \A p \in NewPets :
                   /\ Some(p.owner_id) = Status(session).owner_id
                   /\ QueryGet(db, NoTx, p.owner_id) # {}
             /\ \/ Status(session') = Status(EmptyDict)
                \/ /\ Status(session').added_pets # <<>>
                   /\ Status(session').owner_id = Status(session).owner_id]_vars

\* the second submit of a registration of two pets was accepted: one owner
\* row, two pet rows
C11_Witness ==
    /\ Completed
    /\ flashed[1].k = 2
    /\ Cardinality(db.owners) = 1
    /\ Cardinality(db.pets) = 2
    /\ \A p \in db.pets : \E o \in db.owners : p.owner_id = o.id

(***************************************************************************)
(* C12.  After a reset, whatever the session held, the session has no      *)
(* owner snapshot, no declared total, no committed number and no owner id, *)
(* and the page viewed next shows the same; clearing the session twice     *)
(* gives what clearing it once gives.                                      *)
(***************************************************************************)
C12_ResetEmpties ==
    [][Flashed' = "reset" =>
          /\ Status(session') = Status(EmptyDict)
          /\ Status(InitSession(session')) = Status(EmptyDict)
          /\ SessionClear(session') = session'
          /\ SessionClear(SessionClear(session)) = SessionClear(session)]_vars

\* a reset has been served after an owner got one pet row
C12_Witness ==
    /\ Flashed = "reset"
    /\ DOMAIN session = {}
    /\ \E o \in db.owners : Cardinality(PetsOf(o.id)) = 1

(***************************************************************************)
(* C13.  A reset leaves both tables as they were, the rows of a            *)
(* registration in progress included.                                      *)
(***************************************************************************)
C13_ResetLeavesTables == [][Flashed' = "reset" => db' = db]_vars

\* a reset has been served and the pet numbered 2 of an owner is stored
\* without a pet numbered 1
C13_Witness ==
    /\ Flashed = "reset"
    /\ \E p \in db.pets :
          /\ p.pet_number = 2
          /\ PetsOf(p.owner_id) = {p}
          /\ QueryGet(db, NoTx, p.owner_id) # {}

(***************************************************************************)
(* The application served with requests that differ in the age they carry: *)
(* the ends of the range and the numbers next to them.                     *)
(***************************************************************************)
AgeInputs == {<<"-", "1">>, <<"0">>, <<"3", "0">>, <<"3", "1">>}

AgePosts ==
    {[name |-> "Al", email |-> "al@x.io", phone |-> "0123456789",
      postal_code |-> "1000", num_pets |-> n, pet_type |-> "cat",
      sex |-> "male", age |-> a, location_type |-> "city"] :
        n \in {<<"1">>, <<"2">>}, a \in AgeInputs}

AgeRequests ==
    {Request(p) :
        p \in AgePosts \cup {q @@ [current_pet_number |-> <<"2">>] : q \in AgePosts}}

\* POST /, every field filled and the age one of AgeInputs
SubmitAge ==
    \E req \in AgeRequests :
        \E r \in {Index(session, db, req, "none")} : Respond(r)

NextAge == SubmitAge \/ View \/ ViewData \/ Reset

SpecAge == Init /\ [][NextAge]_vars

(***************************************************************************)
(* C14.  A submit of which every field is filled and valid but the age,    *)
(* which is below 0 or above 30, is turned down with the validation error  *)
(* and leaves both tables as they were.  With age 0 or age 30, and a       *)
(* number that the session has not committed, it is accepted and adds one  *)
(* pet row, of that age.                                                   *)
(***************************************************************************)
C14_AgeRange ==
    [][\A req \in AgeRequests :
          Respond(Index(session, db, req, "none")) =>
              /\ req.form.age.val \notin AgeMin..AgeMax =>
                    /\ flashed' = <<Flash("error", "invalid", 0, 0)>>
                    /\ db' = db
              /\ req.form.age.val \in {AgeMin, AgeMax} /\ ~Resubmits(req) =>
                    /\ Flashed' = "added"
                    /\ Cardinality(NewPets) = 1
                    /\ \A p \in NewPets : p.age = req.form.age.val]_vars

\* a pet of age 0 and a pet of age 30 are stored, and the request served
\* last was turned down as invalid
C14_Witness ==
    /\ Flashed = "invalid"
    /\ \E p, q \in db.pets : p.age = AgeMin /\ q.age = AgeMax

(***************************************************************************)
(* PetOwnerForm of src/forms/pet_owner_form.py: the helpers that read the  *)
(* pet fields.  A form object is the data of these fields and the error    *)
(* list of pet_type, which is a tuple until the form is validated and a    *)
(* list afterwards.                                                        *)
(***************************************************************************)
\* error messages the model lets pet_type.errors hold
MaxErrors == 2

PetFieldNames == <<"pet_type", "sex", "age", "location_type">>

\* "field is not None and field != ''": a number is never equal to ''
FieldKept(form, name) ==
    IF name = "age" THEN ~form.age.is_none
    ELSE ~form[name].is_none /\ form[name].val # ""

\* bool(field): of a number, that it is not 0
FieldTruth(form, name) ==
    IF name = "age" THEN form.age.val # 0 ELSE form[name].val # ""

\* [field for field in pet_fields if field is not None and field != ""]
KeptFields(form) ==
    SelectSeq(PetFieldNames, LAMBDA name : FieldKept(form, name))

\* any(field for field in pet_fields if field is not None and field != "")
AnyKeptField(form) ==
    \E i \in 1..Len(KeptFields(form)) : FieldTruth(form, KeptFields(form)[i])

\* all(field for field in pet_fields if field is not None and field != "")
AllKeptFields(form) ==
    \A i \in 1..Len(KeptFields(form)) : FieldTruth(form, KeptFields(form)[i])

\* validate_pet_information(): what it returns, or the exception it raises,
\* and the form object it leaves
validate_pet_information(form) ==
    IF AnyKeptField(form) /\ ~AllKeptFields(form)
    THEN IF form.validated
         THEN [returned |-> "False",
               form |-> [form EXCEPT !.errors = Append(@, "complete all")]]
         ELSE [returned |-> "AttributeError", form |-> form]
    ELSE [returned |-> "True", form |-> form]

\* the form objects the helpers are called on
PetFieldForms ==
    [pet_type : {NoneText, Some(""), Some("cat"), Some("dog")},
     sex : {NoneText, Some(""), Some("male"), Some("female")},
     age : {None, Some(0), Some(1), Some(30)},
     location_type : {NoneText, Some(""), Some("city"), Some("rural")},
     microchipped : BOOLEAN,
     validated : BOOLEAN,
     errors : {<<>>}]

InitForm ==
    /\ session = EmptyDict
    /\ db = [owners |-> {}, pets |-> {}]
    /\ flashed = <<>>
    /\ pending = Idle
    /\ checked \in {[called |-> "", returned |-> "", form |-> f] : f \in PetFieldForms}

\* form.validate_pet_information()
CallValidatePetInformation ==
    /\ Len(checked.form.errors) < MaxErrors
    /\ \E r \in {validate_pet_information(checked.form)} :
          checked' = [called |-> "validate_pet_information",
                      returned |-> r.returned, form |-> r.form]
    /\ UNCHANGED <<session, db, flashed, pending>>

\* get_pet_data(): {} when validate_pet_information() returns False, the
\* dictionary of the five pet fields otherwise
get_pet_data(form) ==
    LET r == validate_pet_information(form)
    IN  IF r.returned = "AttributeError"
        THEN [returned |-> "AttributeError", value |-> EmptyDict, form |-> r.form]
        ELSE IF r.returned = "False"
        THEN [returned |-> "{}", value |-> EmptyDict, form |-> r.form]
        ELSE [returned |-> "dict",
              value |-> [pet_type |-> form.pet_type, sex |-> form.sex,
                         age |-> form.age, location_type |-> form.location_type,
                         microchipped |-> form.microchipped],
              form |-> r.form]

\* form.get_pet_data()
CallGetPetData ==
    /\ Len(checked.form.errors) < MaxErrors
    /\ \E r \in {get_pet_data(checked.form)} :
          checked' = [called |-> "get_pet_data", returned |-> r.returned,
                      value |-> r.value, form |-> r.form]
    /\ UNCHANGED <<session, db, flashed, pending>>

NextForm == CallValidatePetInformation \/ CallGetPetData

SpecForm == InitForm /\ [][NextForm]_vars

\* the pet fields of the form that are supplied: a text that is not empty,
\* a number
SuppliedFields(form) ==
    {name \in {"pet_type", "sex", "location_type"} :
        ~form[name].is_none /\ form[name].val # ""}
    \cup {name \in {"age"} : ~form.age.is_none}

(***************************************************************************)
(* C15.  validate_pet_information returns False when at least one of the   *)
(* four pet fields is supplied and at least one is empty or missing, and   *)
(* True when all four are supplied or none is; an age of 0 is a supplied   *)
(* field.  Stated for the forms that were validated, on which the helper   *)
(* raises no exception.                                                    *)
(***************************************************************************)
C15_AllOrNothing ==
    checked.called = "validate_pet_information" /\ checked.form.validated =>
        LET n == Cardinality(SuppliedFields(checked.form))
        IN  /\ n \in 1..3 => checked.returned = "False"
            /\ n \in {0, 4} => checked.returned = "True"

\* the session as an accepted submit of the request finds it, once the owner
\* data is saved
Found(req) == SaveOwnerData(InitSession(session), req.form)

\* the step is an accepted submit of the request: it stores a row with the
\* number and the fields of the request, and it is what index() makes of it
Accepts(req) ==
    /\ CurrentPetNumber(req).ok
    /\ \E p \in NewPets :
          /\ p.pet_number = CurrentPetNumber(req).val
          /\ p.age = req.form.age.val
          /\ p.location_type = req.form.location_type.val
    /\ Respond(Index(session, db, req, "none"))

(***************************************************************************)
(* C16, as claimed.  An accepted submit that is the k-th commit of a       *)
(* session with declared total n reports k of n; it clears the session and *)
(* signals completion if and only if k = n; otherwise the committed        *)
(* numbers are those before it followed by the number of the submit, and   *)
(* the owner snapshot, the declared total and the owner id are what they   *)
(* were before it.  Stated for the sessions that hold an owner snapshot    *)
(* before the submit, with a declared total that is one of 1..5.           *)
(***************************************************************************)
C16_OtherFieldsUnchanged ==
    [][\A req \in Requests :
          /\ Flashed' = "added"
          /\ Status(session).owner_data # EmptyDict
          /\ ProperTotal(req)
          /\ Accepts(req)
          => LET k == Len(Status(session).added_pets) + 1
                 n == Status(session).total_pets
             IN  /\ flashed'[1].k = k /\ flashed'[1].n = n
                 /\ Completed' <=> k = n
                 /\ Status(session') = Status(EmptyDict) <=> k = n
                 /\ k # n =>
                       Status(session') =
                           [Status(session) EXCEPT
                               !.added_pets = Append(@, CurrentPetNumber(req).val)]]_vars

(***************************************************************************)
(* C16, amended.  An accepted submit that is the k-th commit of a session  *)
(* with declared total n reports k of n; it clears the session and signals *)
(* completion if and only if k = n; otherwise the committed numbers are    *)
(* those before it followed by the number of the submit, the owner         *)
(* snapshot and the declared total are what they were before it (what the  *)
(* submit captured, when the session held none), and the owner id is what  *)
(* it was before it when k > 1 and the id of the owner row that the submit *)
(* committed when k = 1.                                                   *)
(***************************************************************************)
C16_CountAndCompletion ==
    [][Flashed' = "added" =>
          \A req \in Requests :
          Accepts(req) =>
              LET k == Len(Status(session).added_pets) + 1
                  n == Found(req)["total_pets"]
              IN  /\ flashed'[1].k = k /\ flashed'[1].n = n
                  /\ Completed' <=> k = n
                  /\ Status(session') = Status(EmptyDict) <=> k = n
                  /\ k # n =>
                        /\ Status(session').added_pets =
                              Append(Status(session).added_pets,
                                     CurrentPetNumber(req).val)
                        /\ Status(session').owner_data = Found(req)["owner_data"]
                        /\ Status(session').total_pets = n
                        /\ IF k = 1
                           THEN \E o \in NewOwners :
                                   Status(session').owner_id = Some(o.id)
                           ELSE Status(session').owner_id = Status(session).owner_id
                  /\ k = 1 /\ Status(session).owner_data # EmptyDict =>
                        /\ Found(req)["owner_data"] = Status(session).owner_data
                        /\ n = Status(session).total_pets]_vars

\* the first of two pets was committed: 1 of 2 is reported, and the session
\* holds the number and the id of the owner row
C16_Witness ==
    /\ flashed = <<Flash("success", "added", 1, 2)>>
    /\ Status(session).added_pets = <<1>>
    /\ Has(session, "owner_id")
    /\ QueryGet(db, NoTx, session["owner_id"]) # {}

(***************************************************************************)
(* C19.  A page view (GET /) leaves the owner snapshot, the declared       *)
(* total, the committed numbers and the owner id of the session, and both  *)
(* tables, as they were; the committed numbers and the declared total it   *)
(* shows are those of the session.                                         *)
(***************************************************************************)
C19_ViewReadOnly ==
    [][View => /\ Status(session') = Status(session)
               /\ db' = db
               /\ session'["added_pets"] = Status(session).added_pets
               /\ session'["total_pets"] = Status(session).total_pets]_vars

\* the page was viewed while one of two pets is committed
C19_Witness ==
    /\ flashed = <<>>
    /\ Status(session).total_pets = 2
    /\ Len(Status(session).added_pets) = 1
    /\ Has(session, "owner_id")

(***************************************************************************)
(* Requests of one client served by two threads.  A request reads the      *)
(* session from the cookie it carries when it arrives; index() works on    *)
(* that copy, and the session of the client becomes the copy when the      *)
(* response arrives.  The database calls of one request, from the flush to *)
(* the commit, are one transaction, which SQLite does not interleave with  *)
(* another one.                                                            *)
(***************************************************************************)
Handlers == {1, 2}

Other(h) == 3 - h

InterleavedRequests ==
    {Request(p) :
        p \in LET post == [name |-> "Al", email |-> "al@x.io", phone |-> "0123456789",
                           postal_code |-> "1000", num_pets |-> <<"2">>,
                           pet_type |-> "cat", sex |-> "male", age |-> <<"0">>,
                           location_type |-> "city"]
              IN  {post, post @@ [current_pet_number |-> <<"2">>]}}

\* index() with a unique constraint on (owner_id, pet_number): the commit of
\* a second row with the same pair raises
HandleWithUniqueNumbers(cookie, d, req) ==
    LET r == Index(cookie, d, req, "none")
    IN  IF \E p \in r.db.pets \ d.pets : \E q \in d.pets :
               q.owner_id = p.owner_id /\ q.pet_number = p.pet_number
        THEN Index(cookie, d, req, "commit")
        ELSE r

\* index() on the session that the request carried and the tables as they
\* are when its transaction runs
HandleLoaded(cookie, d, req) == Index(cookie, d, req, "none")

\* the request arrives: the session is read from its cookie.  raced records
\* that the other thread has read the session too and not yet committed
Receive(h) ==
    /\ pending[h].pc = "idle"
    /\ \E req \in InterleavedRequests :
          pending' =
              [pending EXCEPT
                  ![h] = [pc |-> "received", loaded |-> session, req |-> req,
                          raced |-> pending[Other(h)].pc = "received"],
                  ![Other(h)] = IF @.pc = "received"
                                THEN [@ EXCEPT !.raced = TRUE] ELSE @]
    /\ UNCHANGED <<session, db, flashed, checked>>

\* index() runs, up to the commit: owners and pets are the rows it stored
Handle(h) ==
    /\ pending[h].pc = "received"
    /\ \E r \in {HandleLoaded(pending[h].loaded, db, pending[h].req)} :
          /\ Cardinality(r.db.pets) <= MaxInterleavedPets
          /\ db' = r.db
          /\ pending' =
                [pending EXCEPT
                    ![h] = [pc |-> "committed", loaded |-> @.loaded, req |-> @.req,
                            raced |-> @.raced, cookie |-> r.session,
                            flashed |-> r.flashed,
                            owners |-> r.db.owners \ db.owners,
                            pets |-> r.db.pets \ db.pets]]
    /\ UNCHANGED <<session, flashed, checked>>

\* the response arrives: the client keeps its cookie
Reply(h) ==
    /\ pending[h].pc = "committed"
    /\ session' = pending[h].cookie
    /\ flashed' = pending[h].flashed
    /\ pending' = [pending EXCEPT ![h] = [pc |-> "idle"]]
    /\ UNCHANGED <<db, checked>>

NextInterleaved == \E h \in Handlers : Receive(h) \/ Handle(h) \/ Reply(h)

SpecInterleaved == Init /\ [][NextInterleaved]_vars

\* both threads have committed requests that read the same session before
\* either committed, with the same number, which that session had not
\* committed
BothRaced ==
    /\ pending[1].pc = "committed" /\ pending[2].pc = "committed"
    /\ pending[1].raced /\ pending[2].raced
    /\ pending[1].loaded = pending[2].loaded
    /\ CurrentPetNumber(pending[1].req) = CurrentPetNumber(pending[2].req)
    /\ ~InList(CurrentPetNumber(pending[1].req).val,
               Status(pending[1].loaded).added_pets)

(***************************************************************************)
(* C17.  When two submits of one session with the same number, which the   *)
(* session has not committed, both read the session before either          *)
(* commits, both pass the duplicate check: each stores a pet row with that *)
(* number.  When the session had committed numbers, the two rows are of    *)
(* the same owner; when it had none, each submit stores an owner row of    *)
(* its own.                                                                *)
(***************************************************************************)
C17_BothPass ==
    BothRaced =>
        /\ Cardinality(pending[1].pets) = 1
        /\ Cardinality(pending[2].pets) = 1
        /\ pending[1].pets # pending[2].pets
        /\ \A p \in pending[1].pets \cup pending[2].pets :
              /\ p \in db.pets
              /\ p.pet_number = CurrentPetNumber(pending[1].req).val
        /\ IF Status(pending[1].loaded).added_pets = <<>>
           THEN /\ Cardinality(pending[1].owners) = 1
                /\ Cardinality(pending[2].owners) = 1
                /\ pending[1].owners # pending[2].owners
                /\ pending[1].owners \cup pending[2].owners \subseteq db.owners
           ELSE \A p \in pending[1].pets, q \in pending[2].pets :
                   p.owner_id = q.owner_id

\* number 1 is committed and two raced submits of number 2 have both stored
\* a row for the same owner
C17_Witness ==
    /\ BothRaced
    /\ Status(pending[1].loaded).added_pets = <<1>>
    /\ \E p \in pending[1].pets, q \in pending[2].pets :
          /\ p # q
          /\ p.owner_id = q.owner_id
          /\ p.pet_number = 2 /\ q.pet_number = 2

(***************************************************************************)
(* The application with a session that is damaged outside it: a session    *)
(* that holds an owner snapshot loses it, alone or together with the owner *)
(* id, and keeps its other keys.                                           *)
(***************************************************************************)
Corrupt ==
    /\ Status(session).owner_data # EmptyDict
    /\ \E lost \in {{"owner_data"}, {"owner_data", "owner_id"}} :
          session' = [k \in DOMAIN session \ lost |-> session[k]]
    /\ UNCHANGED <<db, flashed, pending, checked>>

NextCorrupted == Next \/ Corrupt

SpecCorrupted == Init /\ [][NextCorrupted]_vars

(***************************************************************************)
(* C18.  A submit of a valid form with its pet information, on a session   *)
(* that holds keys but no owner snapshot, captures the owner snapshot and  *)
(* the declared total from the request and flashes no error of an          *)
(* exception, whatever committed numbers and owner id the session holds.   *)
(* Stated for the sessions and the requests with a declared total in 1..5. *)
(***************************************************************************)
C18_MissingSnapshotRecaptured ==
    [][\A req \in Requests :
          /\ ~Has(session, "owner_data")
          /\ Status(session).total_pets \in NumPetsChoices \ {0}
          /\ CurrentPetNumber(req).ok
          /\ ProperTotal(req)
          /\ Respond(Index(session, db, req, "none"))
          => /\ Found(req)["owner_data"] =
                   [name |-> req.form.name, email |-> req.form.email,
                    phone |-> req.form.phone, postal_code |-> req.form.postal_code]
             /\ Found(req)["total_pets"] = req.form.num_pets
             /\ Flashed' # "exception"]_vars

(***************************************************************************)
(* Deleting an owner row.  PetOwner.pets of src/app.py is declared without *)
(* a cascade and Pet.owner_id is NOT NULL; the database is SQLite, on      *)
(* which foreign keys are not enforced unless the connection asks for it.  *)
(* The application has no view that deletes: the step stands for a delete  *)
(* made with its models, through the unit of work or as a bulk DELETE.     *)
(***************************************************************************)
PetsIn(d, owner_id) == {p \in d.pets : p.owner_id = owner_id}

\* db.session.delete(owner); db.session.commit() with the relationship of
\* src/app.py: the pets of the owner are to be detached by setting their
\* owner_id to NULL, which the column refuses; the transaction is rolled back
DeleteOwner(d, o) ==
    IF PetsIn(d, o.id) = {} THEN [d EXCEPT !.owners = @ \ {o}] ELSE d

\* PetOwner.query.filter_by(id=...).delete(); db.session.commit(): the row
\* is deleted and no other row is touched
BulkDeleteOwner(d, o) == [d EXCEPT !.owners = @ \ {o}]

\* the same with cascade="all, delete-orphan", as src/models declares it
DeleteOwnerCascade(d, o) ==
    [owners |-> d.owners \ {o}, pets |-> d.pets \ PetsIn(d, o.id)]

DeleteHow == {"unit of work", "bulk"}

DeleteAs(o, how) ==
    /\ db' = IF how = "bulk" THEN BulkDeleteOwner(db, o) ELSE DeleteOwner(db, o)
    /\ UNCHANGED <<session, flashed, pending, checked>>

Delete == \E o \in db.owners, how \in DeleteHow : DeleteAs(o, how)

NextDelete == SubmitAge \/ View \/ Reset \/ Delete

SpecDelete == Init /\ [][NextDelete]_vars

(***************************************************************************)
(* C20.  A delete of an owner row, made with the models of src/app.py,     *)
(* removes the row and every pet row linked to it, and leaves no pet row   *)
(* that refers to an owner row that does not exist.                        *)
(***************************************************************************)
C20_DeleteCascades ==
    [][\A o \in db.owners, how \in DeleteHow :
          DeleteAs(o, how) =>
              /\ o \notin db'.owners
              /\ PetsIn(db', o.id) = {}
              /\ \A p \in db'.pets : QueryGet(db', NoTx, p.owner_id) # {}]_vars

\* the numbers of a list, as a set
Numbers(list) == {list[i] : i \in 1..Len(list)}

(***************************************************************************)
(* C21.  Whenever the session holds an owner snapshot between requests, it *)
(* has committed fewer numbers than its declared total.                    *)
(***************************************************************************)
C21_CountBelowTotal ==
    Status(session).owner_data # EmptyDict =>
        Len(Status(session).added_pets) < Status(session).total_pets

(***************************************************************************)
(* C22.  Whenever the session has committed numbers between requests, it   *)
(* holds the id of an owner row of the table, and the numbers of the pet   *)
(* rows linked to that owner are the committed numbers of the session,     *)
(* each carried by one row.                                                *)
(***************************************************************************)
C22_SessionMatchesStore ==
    Status(session).added_pets # <<>> =>
        /\ Has(session, "owner_id")
        /\ QueryGet(db, NoTx, session["owner_id"]) # {}
        /\ {p.pet_number : p \in PetsOf(session["owner_id"])}
              = Numbers(session["added_pets"])
        /\ Cardinality(PetsOf(session["owner_id"])) = Len(session["added_pets"])

\* one of two pets is committed, and the submit of the other one failed at
\* the commit
C22_Witness ==
    /\ Flashed = "exception"
    /\ Status(session).total_pets = 2
    /\ Len(Status(session).added_pets) = 1
    /\ Cardinality(PetsOf(session["owner_id"])) = 1

(***************************************************************************)
(* C23.  Every owner row of the table has a pet row linked to it.          *)
(***************************************************************************)
C23_OwnerHasPet == \A o \in db.owners : PetsOf(o.id) # {}

\* an owner is stored with its pet, and the first submit of the next
\* session failed after its owner was flushed: the session holds an id that
\* no row has
C23_Witness ==
    /\ Flashed = "exception"
    /\ db.owners # {}
    /\ Status(session).added_pets = <<>>
    /\ Has(session, "owner_id")
    /\ QueryGet(db, NoTx, session["owner_id"]) = {}

(***************************************************************************)
(* C24.  get_pet_data returns the empty dictionary when none of the four   *)
(* pet fields is supplied and when some but not all of them are, and the   *)
(* dictionary of the five pet fields only when all four are supplied.      *)
(* Stated for the forms that were validated, on which the helper raises no *)
(* exception.                                                              *)
(***************************************************************************)
C24_PetDataOrEmpty ==
    checked.called = "get_pet_data" /\ checked.form.validated =>
        LET n == Cardinality(SuppliedFields(checked.form))
        IN  /\ n < 4 => checked.returned = "{}" /\ checked.value = EmptyDict
            /\ checked.returned = "dict" => n = 4

(***************************************************************************)
(* Pet of src/models/pet_model.py: the properties computed from the age.   *)
(* A pet object is its age; the properties read from it are kept with what *)
(* they returned.                                                          *)
(***************************************************************************)
\* a senior from the year after the seventh
is_senior_above(pet) == pet.age > 7

is_adult(pet) == pet.age >= 1

is_senior(pet) == pet.age >= 7

age_category(pet) ==
    IF pet.age < 1 THEN "puppy/kitten"
    ELSE IF pet.age < 7 THEN "adult"
    ELSE "senior"

\* the ages that the form accepts and the numbers next to them
PetAges == (AgeMin - 1)..(AgeMax + 1)

PetProperties == {"is_adult", "is_senior", "age_category"}

InitPet ==
    /\ session = EmptyDict
    /\ db = [owners |-> {}, pets |-> {}]
    /\ flashed = <<>>
    /\ pending = Idle
    /\ checked \in {[pet |-> [age |-> a], read |-> {}, is_adult |-> FALSE,
                     is_senior |-> FALSE, age_category |-> ""] : a \in PetAges}

\* pet.is_adult
ReadIsAdult ==
    /\ checked' = [checked EXCEPT !.read = @ \cup {"is_adult"},
                                  !.is_adult = is_adult(checked.pet)]
    /\ UNCHANGED <<session, db, flashed, pending>>

\* pet.is_senior
ReadIsSenior ==
    /\ checked' = [checked EXCEPT !.read = @ \cup {"is_senior"},
                                  !.is_senior = is_senior(checked.pet)]
    /\ UNCHANGED <<session, db, flashed, pending>>

\* pet.age_category
ReadAgeCategory ==
    /\ checked' = [checked EXCEPT !.read = @ \cup {"age_category"},
                                  !.age_category = age_category(checked.pet)]
    /\ UNCHANGED <<session, db, flashed, pending>>

NextPet == ReadIsAdult \/ ReadIsSenior \/ ReadAgeCategory

SpecPet == InitPet /\ [][NextPet]_vars

(***************************************************************************)
(* C25.  For a pet of an age in 0..30, age_category is one of              *)
(* 'puppy/kitten', 'adult' and 'senior'; it is 'puppy/kitten' exactly when *)
(* is_adult is False, which is when the age is below 1; 'senior' exactly   *)
(* when is_senior is True, which is when the age is 7 or more; and 'adult' *)
(* exactly when is_adult is True and is_senior is False.                   *)
(***************************************************************************)
C25_AgeCategory ==
    checked.read = PetProperties /\ checked.pet.age \in AgeMin..AgeMax =>
        /\ checked.age_category \in {"puppy/kitten", "adult", "senior"}
        /\ checked.is_adult <=> checked.pet.age >= 1
        /\ checked.is_senior <=> checked.pet.age >= 7
        /\ checked.age_category = "puppy/kitten" <=> ~checked.is_adult
        /\ checked.age_category = "senior" <=> checked.is_senior
        /\ checked.age_category = "adult" <=>
              checked.is_adult /\ ~checked.is_senior

\* the three properties of a pet of age 7 have been read: a senior
C25_Witness ==
    /\ checked.read = PetProperties
    /\ checked.pet.age = 7
    /\ checked.age_category = "senior"
    /\ checked.is_senior

====
